---------------------------- MODULE Spec2Model ----------------------------
(***************************************************************************)
(* tmuxp.util: the command runner `tmux` (a subprocess wrapper) and the    *)
(* mapping facade `TmuxObject` (a MutableMapping over the dict `_TMUX`).    *)
(*                                                                         *)
(* The module is Python 2 code: filter() returns a list and every          *)
(* exception carries .message.                                             *)
(*                                                                         *)
(* Text read from the subprocess is a sequence of one-character strings;   *)
(* command arguments are whole strings or integers.  A Python value that   *)
(* may be a list of lines or a single string is a record tagged by `kind`. *)
(***************************************************************************)
EXTENDS Integers, Sequences, FiniteSets, TLC

VARIABLES
    args,       \* tmux.__init__: the positional arguments *args
    proc,       \* what Popen / wait / read will yield for this invocation
    pc,         \* "call" before __init__ runs, then "returned" or "raised"
    cmd,        \* self.cmd
    stdout,     \* self.stdout
    stderr,     \* self.stderr
    exc,        \* the exception that left __init__, or "none"
    log,        \* the records logged by __init__, by level
    _TMUX,      \* TmuxObject._TMUX, the backing dict, as an association list
    dirty,      \* TmuxObject.dirty
    last,       \* the mapping operation that ran last and what it gave back
    live,       \* history: keys put into the facade and not deleted since
    built       \* history: the field list the facade was built from, until a field changes

runnerVars == <<args, proc, pc, cmd, stdout, stderr, exc, log>>
facadeVars == <<_TMUX, dirty, last, live, built>>
vars == <<args, proc, pc, cmd, stdout, stderr, exc, log, _TMUX, dirty, last, live, built>>

-----------------------------------------------------------------------------
(* Bounds *)

MaxOutLen == 5
MaxErrLen == 2
MaxArgs == 2
NumKeys == 3
NumValues == 3

-----------------------------------------------------------------------------
(* Text and values *)

NL == "\n"
Chars == {"a", "b", NL}

RECURSIVE TextUpTo(_)
TextUpTo(n) ==
    IF n = 0 THEN {<<>>}
    ELSE LET shorter == TextUpTo(n - 1)
         IN  shorter \cup {Append(t, c) : t \in {s \in shorter : Len(s) = n - 1}, c \in Chars}

StrArg(s) == [t |-> "str", s |-> s, n |-> 0]
IntArg(n) == [t |-> "int", s |-> "", n |-> n]
ArgVals == {StrArg("has-session"), IntArg(0)}

RECURSIVE ArgListsUpTo(_)
ArgListsUpTo(n) ==
    IF n = 0 THEN {<<>>}
    ELSE LET shorter == ArgListsUpTo(n - 1)
         IN  shorter \cup {Append(l, a) : l \in {s \in shorter : Len(s) = n - 1}, a \in ArgVals}

Digits == <<"0", "1", "2", "3", "4", "5", "6", "7", "8", "9">>

RECURSIVE NatStr(_)
NatStr(n) == IF n < 10 THEN Digits[n + 1] ELSE NatStr(n \div 10) \o Digits[(n % 10) + 1]

\* str(c) for the argument kinds the callers pass
Str(c) == IF c.t = "str" THEN c.s ELSE NatStr(c.n)

Unset == [kind |-> "unset", lines |-> <<>>, text |-> <<>>]
List(ls) == [kind |-> "list", lines |-> ls, text |-> <<>>]
Text(s) == [kind |-> "str", lines |-> <<>>, text |-> s]

\* Python truth value of a list or a string
Truthy(v) == IF v.kind = "list" THEN v.lines # <<>> ELSE v.text # <<>>

\* Python v[0] of a non-empty list (its first line) or string (its first character)
Index0(v) == IF v.kind = "list" THEN v.lines[1] ELSE <<v.text[1]>>

-----------------------------------------------------------------------------
(* The command runner *)

\* str.split('\n')
RECURSIVE Split(_)
Split(s) ==
    IF s = <<>> THEN << <<>> >>
    ELSE LET rest == Split(Tail(s))
         IN  IF Head(s) = NL
             THEN << <<>> >> \o rest
             ELSE << <<Head(s)>> \o Head(rest) >> \o Tail(rest)

\* a split that drops the trailing newline first and keeps interior empty lines
RECURSIVE StripTrailingNL(_)
StripTrailingNL(s) ==
    IF s # <<>> /\ s[Len(s)] = NL THEN StripTrailingNL(SubSeq(s, 1, Len(s) - 1)) ELSE s

FilterLines_TrailingOnly(raw) ==
    IF StripTrailingNL(raw) = <<>> THEN <<>> ELSE Split(StripTrailingNL(raw))

\* x = raw.split('\n'); x = filter(None, x)
FilterLines(raw) == SelectSeq(Split(raw), LAMBDA line : line # <<>>)

\* the fallback without the test that stdout is empty
EffectiveStdout_NoEmptyTest(c, out, err) ==
    IF (\E i \in 1..Len(c) : c[i] = "has-session") /\ Len(err) # 0
    THEN Text(err[1])
    ELSE List(out)

\* if 'has-session' in cmd and len(self.stderr): if not self.stdout: self.stdout = self.stderr[0]
EffectiveStdout(c, out, err) ==
    IF (\E i \in 1..Len(c) : c[i] = "has-session") /\ Len(err) # 0
    THEN IF ~Truthy(List(out)) THEN Text(err[1]) ELSE List(out)
    ELSE List(out)

\* cmd = ['tmux']; cmd += args; cmd = [str(c) for c in cmd]
BuildCmd(a) == <<"tmux">> \o [i \in 1..Len(a) |-> Str(a[i])]

\* tmux.__init__, the whole constructor
tmux_init ==
    /\ pc = "call"
    /\ cmd' = BuildCmd(args)
    /\ IF proc.ok
       THEN \* the try block bound stdout and stderr
            /\ stderr' = List(FilterLines(proc.err))
            /\ stdout' = EffectiveStdout(cmd', FilterLines(proc.out), FilterLines(proc.err))
            /\ log' = <<"debug">>
            /\ exc' = "none"
            /\ pc' = "returned"
       ELSE \* the except clause logs; stdout is unbound when line 88 reads it
            /\ log' = <<"error">>
            /\ exc' = "UnboundLocalError"
            /\ pc' = "raised"
            /\ UNCHANGED <<stdout, stderr>>
    /\ UNCHANGED <<args, proc>>
    /\ UNCHANGED facadeVars

Outcomes ==
    {[ok |-> FALSE, out |-> <<>>, err |-> <<>>]}
    \cup {[ok |-> TRUE, out |-> o, err |-> e] : o \in TextUpTo(MaxOutLen), e \in TextUpTo(MaxErrLen)}

NoVal == [t |-> "none", v |-> ""]
NoOp == [op |-> "none", key |-> "", res |-> "none", val |-> NoVal, keys |-> <<>>, n |-> 0]

FacadeIdle ==
    /\ _TMUX = <<>>
    /\ dirty = FALSE
    /\ last = NoOp
    /\ live = {}
    /\ built = [fresh |-> FALSE, fields |-> <<>>]

RunnerInit ==
    /\ args \in ArgListsUpTo(MaxArgs)
    /\ proc \in Outcomes
    /\ pc = "call"
    /\ cmd = <<>>
    /\ stdout = Unset
    /\ stderr = Unset
    /\ exc = "none"
    /\ log = <<>>
    /\ FacadeIdle

RunnerNext == tmux_init

RunnerSpec == RunnerInit /\ [][RunnerNext]_vars

-----------------------------------------------------------------------------
(* Properties of the command runner *)

HasSessionQuery == \E i \in 1..Len(args) : Str(args[i]) = "has-session"

RECURSIVE Flatten(_)
Flatten(ls) == IF ls = <<>> THEN <<>> ELSE Head(ls) \o Flatten(Tail(ls))

\* the positions of raw where a non-empty newline-separated segment starts
SegmentStarts(raw) ==
    {i \in 1..Len(raw) : raw[i] # NL /\ (i = 1 \/ raw[i - 1] = NL)}

\* lines are the non-empty newline-separated segments of raw, in order
IsSegments(raw, ls) ==
    /\ \A i \in 1..Len(ls) : ls[i] # <<>> /\ \A j \in 1..Len(ls[i]) : ls[i][j] # NL
    /\ Len(ls) = Cardinality(SegmentStarts(raw))
    /\ Flatten(ls) = SelectSeq(raw, LAMBDA ch : ch # NL)

\* C1: constructing the runner never lets a fault reach the caller; when
\* launching or reading the subprocess fails the caller still gets stdout and
\* stderr as two empty line sequences.
C1_NeverRaises ==
    pc # "call" =>
        /\ pc = "returned"
        /\ exc = "none"
        /\ (~proc.ok => stdout = List(<<>>) /\ stderr = List(<<>>))

\* C2: the lines kept from the captured stdout and stderr text are exactly the
\* non-empty newline-separated segments of that text, in their original order
\* (when the has-session fallback replaced stdout, the stdout text had none).
C2_LinesAreNonEmptySegments ==
    pc = "returned" =>
        /\ stderr.kind = "list"
        /\ IsSegments(proc.err, stderr.lines)
        /\ IF stdout.kind = "list"
           THEN IsSegments(proc.out, stdout.lines)
           ELSE SegmentStarts(proc.out) = {}

C2_Witness ==
    /\ pc = "returned"
    /\ proc.out = <<"a", NL, NL, "b", NL>>
    /\ stdout = List(<< <<"a">>, <<"b">> >>)
    /\ proc.err = <<NL, "a">>
    /\ stderr = List(<< <<"a">> >>)

\* C3: for a has-session invocation with empty filtered stdout and non-empty
\* filtered stderr, the effective stdout is a line sequence whose first element
\* is the whole first stderr line.
C3_FallbackIsLineSequence ==
    (/\ pc = "returned"
     /\ HasSessionQuery
     /\ SegmentStarts(proc.out) = {}
     /\ SegmentStarts(proc.err) # {})
    => /\ stdout.kind = "list"
       /\ Truthy(stdout)
       /\ Index0(stdout) = stderr.lines[1]

\* C10: the stderr-to-stdout fallback applies only to a has-session query with
\* non-empty filtered stderr and empty filtered stdout; every other invocation
\* keeps the filtered stdout lines, and stderr is always the filtered stderr lines.
FallbackCase ==
    /\ HasSessionQuery
    /\ SegmentStarts(proc.err) # {}
    /\ SegmentStarts(proc.out) = {}

C10_FallbackOnlyWhenAllThree ==
    pc = "returned" =>
        /\ stderr.kind = "list" /\ IsSegments(proc.err, stderr.lines)
        /\ (~FallbackCase => stdout.kind = "list" /\ IsSegments(proc.out, stdout.lines))

C10_Witness ==
    /\ pc = "returned"
    /\ args = <<IntArg(0), StrArg("has-session")>>
    /\ cmd = <<"tmux", "0", "has-session">>
    /\ proc.err = <<"a", "b">>
    /\ proc.out = <<"b", NL, "a">>
    /\ stdout = List(<< <<"b">>, <<"a">> >>)
    /\ stderr = List(<< <<"a", "b">> >>)

-----------------------------------------------------------------------------
(* The mapping facade *)

KeyNames == <<"session_name", "session_windows", "window_id", "pane_id", "window_name">>
Keys == {KeyNames[i] : i \in 1..NumKeys}

StrVal(s) == [t |-> "str", v |-> s]
IntVal(s) == [t |-> "int", v |-> s]
ValueList == <<StrVal("foo"), StrVal("1"), IntVal("1"), StrVal("2"), IntVal("2")>>
Values == {ValueList[i] : i \in 1..NumValues}

\* A dict is a list of <<key, value>> entries, one per key, in the dict's own
\* iteration order; that order is fixed by the keys (here their rank in KeyNames).
Rank(k) == CHOOSE i \in 1..Len(KeyNames) : KeyNames[i] = k

DictKeys(d) == [i \in 1..Len(d) |-> d[i][1]]

HasKey(d, k) == \E i \in 1..Len(d) : d[i][1] = k

DictLookup(d, k) == d[CHOOSE i \in 1..Len(d) : d[i][1] = k][2]

\* d[k] = v
DictSet(d, k, v) ==
    IF HasKey(d, k)
    THEN [i \in 1..Len(d) |-> IF d[i][1] = k THEN <<k, v>> ELSE d[i]]
    ELSE SelectSeq(d, LAMBDA e : Rank(e[1]) < Rank(k))
         \o << <<k, v>> >>
         \o SelectSeq(d, LAMBDA e : Rank(e[1]) > Rank(k))

\* del d[k], for a key of d
DictDel(d, k) == SelectSeq(d, LAMBDA e : e[1] # k)

RECURSIVE DictsOver(_)
DictsOver(n) ==
    IF n = 0 THEN {<<>>}
    ELSE LET smaller == DictsOver(n - 1)
         IN  smaller \cup {Append(d, <<KeyNames[n], v>>) : d \in smaller, v \in Values}

Raised(e) == [res |-> e, val |-> NoVal]
Returned(v) == [res |-> "ok", val |-> v]

\* a lookup that hands back the value converted to a string
GetResult_Coerces(d, key) ==
    IF HasKey(d, key) THEN Returned(StrVal(DictLookup(d, key).v)) ELSE Raised("KeyError")

\* return self._TMUX[key]
GetResult(d, key) ==
    IF HasKey(d, key) THEN Returned(DictLookup(d, key)) ELSE Raised("KeyError")

\* return self._TMUX.keys()
KeysResult(d) == DictKeys(d)

\* return len(self._TMUX.keys())
LenResult(d) == Len(DictKeys(d))

Changed == [fresh |-> FALSE, fields |-> <<>>]

\* a lookup that also marks the facade dirty
__getitem___MarksDirty(key) ==
    /\ last' = [NoOp EXCEPT !.op = "get", !.key = key,
                            !.res = GetResult(_TMUX, key).res,
                            !.val = GetResult(_TMUX, key).val]
    /\ dirty' = TRUE
    /\ UNCHANGED <<_TMUX, live, built>>
    /\ UNCHANGED runnerVars

\* TmuxObject.__getitem__
__getitem__(key) ==
    /\ last' = [NoOp EXCEPT !.op = "get", !.key = key,
                            !.res = GetResult(_TMUX, key).res,
                            !.val = GetResult(_TMUX, key).val]
    /\ UNCHANGED <<_TMUX, dirty, live, built>>
    /\ UNCHANGED runnerVars

\* a store that keeps the value a key already has
__setitem___KeepsOld(key, value) ==
    /\ _TMUX' = IF HasKey(_TMUX, key) THEN _TMUX ELSE DictSet(_TMUX, key, value)
    /\ dirty' = TRUE
    /\ last' = [NoOp EXCEPT !.op = "set", !.key = key, !.res = "ok", !.val = value]
    /\ live' = live \cup {key}
    /\ built' = Changed
    /\ UNCHANGED runnerVars

\* a store that forgets the dirty flag
__setitem___NotDirty(key, value) ==
    /\ _TMUX' = DictSet(_TMUX, key, value)
    /\ UNCHANGED dirty
    /\ last' = [NoOp EXCEPT !.op = "set", !.key = key, !.res = "ok", !.val = value]
    /\ live' = live \cup {key}
    /\ built' = Changed
    /\ UNCHANGED runnerVars

\* TmuxObject.__setitem__
__setitem__(key, value) ==
    /\ _TMUX' = DictSet(_TMUX, key, value)
    /\ dirty' = TRUE
    /\ last' = [NoOp EXCEPT !.op = "set", !.key = key, !.res = "ok", !.val = value]
    /\ live' = live \cup {key}
    /\ built' = Changed
    /\ UNCHANGED runnerVars

\* a delete that marks the facade dirty and leaves the entry in the dict
__delitem___KeepsEntry(key) ==
    /\ IF HasKey(_TMUX, key)
       THEN /\ dirty' = TRUE
            /\ last' = [NoOp EXCEPT !.op = "del", !.key = key, !.res = "ok"]
            /\ live' = live \ {key}
            /\ built' = Changed
            /\ UNCHANGED _TMUX
       ELSE /\ last' = [NoOp EXCEPT !.op = "del", !.key = key, !.res = "KeyError"]
            /\ UNCHANGED <<_TMUX, dirty, live, built>>
    /\ UNCHANGED runnerVars

\* a delete that swallows the missing key (pop with a default)
__delitem___Swallows(key) ==
    /\ _TMUX' = DictDel(_TMUX, key)
    /\ dirty' = TRUE
    /\ last' = [NoOp EXCEPT !.op = "del", !.key = key, !.res = "ok"]
    /\ live' = live \ {key}
    /\ built' = Changed
    /\ UNCHANGED runnerVars

\* TmuxObject.__delitem__
__delitem__(key) ==
    /\ IF HasKey(_TMUX, key)
       THEN /\ _TMUX' = DictDel(_TMUX, key)
            /\ dirty' = TRUE
            /\ last' = [NoOp EXCEPT !.op = "del", !.key = key, !.res = "ok"]
            /\ live' = live \ {key}
            /\ built' = Changed
       ELSE \* del self._TMUX[key] raises KeyError; line 143 is not reached
            /\ last' = [NoOp EXCEPT !.op = "del", !.key = key, !.res = "KeyError"]
            /\ UNCHANGED <<_TMUX, dirty, live, built>>
    /\ UNCHANGED runnerVars

\* TmuxObject.keys
keys ==
    /\ last' = [NoOp EXCEPT !.op = "keys", !.res = "ok", !.keys = KeysResult(_TMUX)]
    /\ UNCHANGED <<_TMUX, dirty, live, built>>
    /\ UNCHANGED runnerVars

\* TmuxObject.__iter__, run to exhaustion
__iter__ ==
    /\ last' = [NoOp EXCEPT !.op = "iter", !.res = "ok", !.keys = DictKeys(_TMUX)]
    /\ UNCHANGED <<_TMUX, dirty, live, built>>
    /\ UNCHANGED runnerVars

\* TmuxObject.__len__
__len__ ==
    /\ last' = [NoOp EXCEPT !.op = "len", !.res = "ok", !.n = LenResult(_TMUX)]
    /\ UNCHANGED <<_TMUX, dirty, live, built>>
    /\ UNCHANGED runnerVars

RunnerIdle ==
    /\ args = <<>>
    /\ proc = [ok |-> FALSE, out |-> <<>>, err |-> <<>>]
    /\ pc = "idle"
    /\ cmd = <<>>
    /\ stdout = Unset
    /\ stderr = Unset
    /\ exc = "none"
    /\ log = <<>>

\* a facade populated from a field list: the entity classes built on TmuxObject
\* supply _TMUX and dirty
FacadeInit ==
    /\ _TMUX \in DictsOver(NumKeys)
    /\ dirty \in BOOLEAN
    /\ last = NoOp
    /\ live = {_TMUX[i][1] : i \in 1..Len(_TMUX)}
    /\ built = [fresh |-> TRUE, fields |-> _TMUX]
    /\ RunnerIdle

FacadeNext ==
    \/ \E key \in Keys : __getitem__(key)
    \/ \E key \in Keys, value \in Values : __setitem__(key, value)
    \/ \E key \in Keys : __delitem__(key)
    \/ keys
    \/ __iter__
    \/ __len__

FacadeSpec == FacadeInit /\ [][FacadeNext]_vars

-----------------------------------------------------------------------------
(* Properties of the mapping facade *)

NoDuplicates(ks) == \A i, j \in 1..Len(ks) : ks[i] = ks[j] => i = j
Range(ks) == {ks[i] : i \in 1..Len(ks)}

ReadOps == {"get", "keys", "iter", "len"}

\* C4: right after set(k, v), get(k) returns v and the facade is dirty; right
\* after a successful delete(k), get(k) fails with key-not-found.
C4_SetThenGetDeleteThenMiss ==
    /\ last.op = "set" =>
           /\ GetResult(_TMUX, last.key) = Returned(last.val)
           /\ dirty = TRUE
    /\ (last.op = "del" /\ last.res = "ok") =>
           GetResult(_TMUX, last.key) = Raised("KeyError")

C4_Witness ==
    /\ last.op = "del" /\ last.res = "ok" /\ last.key = "window_id"
    /\ HasKey(_TMUX, "session_name")
    /\ dirty = TRUE

\* C5: after any sequence of sets and deletes, len() is the number of distinct
\* keys put in and not deleted since, and keys() and iteration yield exactly
\* those keys, each once.
C5_KeysAreTheLiveKeys ==
    /\ LenResult(_TMUX) = Cardinality(live)
    /\ Range(KeysResult(_TMUX)) = live
    /\ NoDuplicates(KeysResult(_TMUX))
    /\ last.op \in {"keys", "iter"} =>
           Range(last.keys) = live /\ NoDuplicates(last.keys)
    /\ last.op = "len" => last.n = Cardinality(live)

C5_Witness ==
    /\ last.op = "len" /\ last.n = 2
    /\ ~built.fresh
    /\ live = {"session_name", "window_id"}

\* C6: get or delete of an absent key fails with key-not-found, surfaced to
\* the caller, and leaves the stored fields exactly as they were.
C6_MissingKeyRaisesAndKeepsFields ==
    [][(last'.op \in {"get", "del"} /\ ~HasKey(_TMUX, last'.key))
         => (last'.res = "KeyError" /\ _TMUX' = _TMUX)]_vars

C6_Witness ==
    /\ last.op = "del" /\ last.res = "KeyError" /\ last.key = "window_id"
    /\ HasKey(_TMUX, "session_name")

\* C7: every read (get, keys, iteration, len), whether it succeeds or fails,
\* leaves the dirty flag and the stored fields unchanged.
C7_ReadsChangeNothing ==
    [][last'.op \in ReadOps => (dirty' = dirty /\ _TMUX' = _TMUX)]_vars

C7_Witness ==
    /\ last.op = "get" /\ last.res = "KeyError"
    /\ dirty = FALSE
    /\ _TMUX # <<>>

\* C8 as stated: after every invocation of set or of delete, for a present or
\* an absent key, the dirty flag is true.
C8_EverySetOrDeleteMarksDirty ==
    last.op \in {"set", "del"} => dirty = TRUE

\* C8 amended: after every set, and after every delete that removed a key, the
\* dirty flag is true.
C8_CompletedSetOrDeleteMarksDirty ==
    (last.op = "set" \/ (last.op = "del" /\ last.res = "ok")) => dirty = TRUE

C8_Witness ==
    /\ last.op = "del" /\ last.res = "ok"
    /\ dirty = TRUE
    /\ _TMUX = <<>>

=============================================================================
